---- MODULE Spec2Model ----
(***************************************************************************)
(* A model of the Splunk DNS proxy input (src/bin/dns_proxy.py): the       *)
(* orchestrator DNSProxyInput.run, the event emitter SplunkDNSLogger, and  *)
(* the per-query handler flow of the two transport listeners.              *)
(*                                                                         *)
(* dns_proxy.py is the only file of the program at hand.  The listener,    *)
(* the passthrough handler, the wire codec and the stash writer live in    *)
(* bundled libraries (dnslib, event_writer); their behaviour is modelled   *)
(* from the design document and is marked as such below.                   *)
(***************************************************************************)
EXTENDS Integers, Sequences, FiniteSets, TLC

(***************************************************************************)
(* Bounds of the model.                                                    *)
(***************************************************************************)
\* number of queries (UDP datagrams / TCP connections) the listeners take
MaxQueries == 2

\* the number of concurrent callers of run
MaxCallers == 2

\* the number of calls of run that are recorded
MaxStarts == 3

\* the longest upstream_dns string over UpstreamAlphabet the parsing is
\* checked on
MaxUpstreamLen == 4

\* the most digits of a port in the upstream_dns strings of the form
\* host:port the parsing is checked on
MaxPortDigits == 3

\* the largest limit on the digits of int a process is taken to run with
\* (the default of the releases that have a limit; a limit has no maximum)
MaxDigitLimit == 4300

\* Python's None, where an object is expected
None == [ none |-> TRUE ]

\* Python's None, where a string (a sequence of characters) is expected
NoneStr == << "None" >>

(***************************************************************************)
(* Small helpers on sequences.                                             *)
(***************************************************************************)
RECURSIVE SelectIdx(_, _, _)
\* the indices i of s, in order, with by[i] = q (the events of one query)
SelectIdx(by, q, i) ==
    IF i > Len(by) THEN << >>
    ELSE IF by[i] = q THEN <<i>> \o SelectIdx(by, q, i + 1)
         ELSE SelectIdx(by, q, i + 1)

(***************************************************************************)
(* binascii.hexlify: two lowercase hexadecimal digits per byte.            *)
(***************************************************************************)
HexDigits == <<"0","1","2","3","4","5","6","7","8","9","a","b","c","d","e","f">>

RECURSIVE hexlify(_)
hexlify(data) ==
    IF data = << >> THEN ""
    ELSE HexDigits[(Head(data) \div 16) + 1] \o HexDigits[(Head(data) % 16) + 1]
         \o hexlify(Tail(data))

(***************************************************************************)
(* struct.pack("!H", n): the 2-byte big-endian length prefix of DNS over   *)
(* TCP, and its inverse.                                                   *)
(***************************************************************************)
pack_H(n) == << (n \div 256) % 256, n % 256 >>
unpack_H(b) == b[1] * 256 + b[2]

(***************************************************************************)
(* The wire codec (dnslib.DNSRecord.parse), reduced to the fields the      *)
(* proxy reads.  A message is                                              *)
(*     << flags1, flags2, qname, qtype, rtype, rtype, ... >>               *)
(* flags1 carries the TC bit (0x02), flags2 the response code in its low   *)
(* nibble, as bytes 3 and 4 of a DNS header do.  A buffer shorter than     *)
(* header plus question does not decode (DNSError).                        *)
(***************************************************************************)
HeaderLen == 4

Decodable(data) == Len(data) >= HeaderLen

DNSRecord_parse(data) ==
    [ header |-> [ tc    |-> (data[1] \div 2) % 2 = 1,
                   rcode |-> data[2] % 16 ],
      q      |-> [ qname |-> data[3], qtype |-> data[4] ],
      rr     |-> [ i \in 1..(Len(data) - HeaderLen) |->
                     [ rtype |-> data[HeaderLen + i] ] ] ]

\* dnslib.RCODE.NOERROR
NOERROR == 0

\* dnslib.QTYPE: the mnemonic of a record type number
QTYPE(t) ==
    CASE t = 1  -> "A"
      [] t = 5  -> "CNAME"
      [] t = 28 -> "AAAA"
      [] OTHER  -> "TYPE?"

\* the label of a question name (qname byte -> dotted name)
QName(n) ==
    CASE n = 1 -> "example.com."
      [] n = 2 -> "example.org."
      [] OTHER -> "."

RECURSIVE join(_, _)
\* sep.join(strs)
join(sep, strs) ==
    IF strs = << >> THEN ""
    ELSE IF Len(strs) = 1 THEN strs[1]
    ELSE strs[1] \o sep \o join(sep, Tail(strs))


(***************************************************************************)
(* SplunkDNSLogger: the event each log_* method hands to                   *)
(* self.writer.write_event.  handler is the request handler of one query:  *)
(* client_address is the pair (address, port), protocol is "udp" or "tcp". *)
(***************************************************************************)
log_recv(handler, data) ==
    [ type           |-> "received",
      client_address |-> handler.client_address[1],
      client_port    |-> handler.client_address[2],
      protocol       |-> handler.protocol,
      length         |-> Len(data),
      data           |-> hexlify(data) ]

\* log_send with the length of the hexadecimal text for the length of the data
log_send_hex_length(handler, data) ==
    [ type           |-> "sent",
      client_address |-> handler.client_address[1],
      client_port    |-> handler.client_address[2],
      protocol       |-> handler.protocol,
      length         |-> 2 * Len(data),
      data           |-> hexlify(data) ]

log_send(handler, data) ==
    [ type           |-> "sent",
      client_address |-> handler.client_address[1],
      client_port    |-> handler.client_address[2],
      protocol       |-> handler.protocol,
      length         |-> Len(data),
      data           |-> hexlify(data) ]

\* log_request of a logger written for the UDP server alone
log_request_udp_only(handler, request) ==
    [ type           |-> "request",
      client_address |-> handler.client_address[1],
      client_port    |-> handler.client_address[2],
      protocol       |-> "udp",
      query_name     |-> QName(request.q.qname),
      response_type  |-> QTYPE(request.q.qtype) ]

log_request(handler, request) ==
    [ type           |-> "request",
      client_address |-> handler.client_address[1],
      client_port    |-> handler.client_address[2],
      protocol       |-> handler.protocol,
      query_name     |-> QName(request.q.qname),
      response_type  |-> QTYPE(request.q.qtype) ]

log_reply(handler, reply) ==
    IF reply.header.rcode = NOERROR
    THEN [ type             |-> "reply",
           client_address   |-> handler.client_address[1],
           client_port      |-> handler.client_address[2],
           protocol         |-> handler.protocol,
           query_name       |-> QName(reply.q.qname),
           response_type    |-> QTYPE(reply.q.qtype),
           response_records |-> join(",", [ i \in DOMAIN reply.rr |->
                                              QTYPE(reply.rr[i].rtype) ]) ]
    ELSE [ type             |-> "reply",
           client_address   |-> handler.client_address[1],
           client_port      |-> handler.client_address[2],
           protocol         |-> handler.protocol,
           query_name       |-> QName(reply.q.qname),
           response_type    |-> QTYPE(reply.q.qtype),
           response_code    |-> reply.header.rcode ]

\* log_truncated with the type of log_reply left in place
log_truncated_as_reply(handler, reply) ==
    [ type             |-> "reply",
      client_address   |-> handler.client_address[1],
      client_port      |-> handler.client_address[2],
      protocol         |-> handler.protocol,
      query_name       |-> QName(reply.q.qname),
      response_type    |-> QTYPE(reply.q.qtype),
      response_records |-> join(",", [ i \in DOMAIN reply.rr |->
                                         QTYPE(reply.rr[i].rtype) ]) ]

log_truncated(handler, reply) ==
    [ type             |-> "truncated_reply",
      client_address   |-> handler.client_address[1],
      client_port      |-> handler.client_address[2],
      protocol         |-> handler.protocol,
      query_name       |-> QName(reply.q.qname),
      response_type    |-> QTYPE(reply.q.qtype),
      response_records |-> join(",", [ i \in DOMAIN reply.rr |->
                                         QTYPE(reply.rr[i].rtype) ]) ]

\* log_error with the type of log_send left in place
log_error_as_sent(handler, e) ==
    [ type           |-> "sent",
      client_address |-> handler.client_address[1],
      client_port    |-> handler.client_address[2],
      protocol       |-> handler.protocol,
      error          |-> e ]

log_error(handler, e) ==
    [ type           |-> "invalid_request",
      client_address |-> handler.client_address[1],
      client_port    |-> handler.client_address[2],
      protocol       |-> handler.protocol,
      error          |-> e ]

(***************************************************************************)
(* The configuration handed to run (cleaned_params): a function from the   *)
(* keys that are present to their values.  upstream_dns is a string, kept  *)
(* as the sequence of its characters so that partition and int work on it  *)
(* as they do in the program.                                              *)
(***************************************************************************)
\* dict.get(key, default)
Get(params, key, default) ==
    IF key \in DOMAIN params THEN params[key] ELSE default

RECURSIVE partition_drops_tail(_, _)
\* a partition that loses what follows the separator
partition_drops_tail(s, sep) ==
    IF s = << >> THEN << << >>, << >>, << >> >>
    ELSE IF Head(s) = sep THEN << << >>, <<sep>>, << >> >>
    ELSE LET rest == partition_drops_tail(Tail(s), sep)
         IN  << <<Head(s)>> \o rest[1], rest[2], rest[3] >>

RECURSIVE partition(_, _)
\* str.partition(sep): (head, sep, tail) around the first sep, or
\* (s, "", "") when s has no sep
partition(s, sep) ==
    IF s = << >> THEN << << >>, << >>, << >> >>
    ELSE IF Head(s) = sep THEN << << >>, <<sep>>, Tail(s) >>
    ELSE LET rest == partition(Tail(s), sep)
         IN  << <<Head(s)>> \o rest[1], rest[2], rest[3] >>

DigitChars == <<"0","1","2","3","4","5","6","7","8","9">>

\* the interpreters the program runs on: Python 2.7 and Python 3.3 to 3.13.
\* For Python 2, text is the type of the configuration values (a byte
\* string or a unicode string) and wide tells whether the interpreter holds
\* a character beyond U+FFFF as one character.  limited tells whether the
\* release limits the digits int converts: the releases from 3.11 on do,
\* those before 3.7 do not, and of 3.7 to 3.10 the later patch releases do.
Releases ==
    { [ major |-> 2, minor |-> 7, text |-> t, wide |-> w, limited |-> FALSE ]
      : t \in { "str", "unicode" }, w \in BOOLEAN }
    \cup { r \in [ major : {3}, minor : 3..13, text : {"unicode"},
                    wide : {TRUE}, limited : BOOLEAN ] :
              /\ r.minor <= 6 => ~r.limited
              /\ r.minor >= 11 => r.limited }

\* the limits on the digits of int a process of a release can run with
\* (sys.get_int_max_str_digits(): the default, 4300, or what
\* PYTHONINTMAXSTRDIGITS, -X int_max_str_digits or
\* sys.set_int_max_str_digits set): 0, which is no limit, or 640 and more
DigitLimits(release) ==
    IF release.limited THEN {0} \cup 640..MaxDigitLimit ELSE {0}

\* a process: a release and the limit in force
Build(release, limit) ==
    [ major |-> release.major, minor |-> release.minor, text |-> release.text,
      wide |-> release.wide, limit |-> limit ]

\* the processes the program runs in: int differs between them
Builds ==
    UNION { { Build(r, l) : l \in DigitLimits(r) } : r \in Releases }

\* the version of the Unicode database of a build (5.2 is 52, 15.1 is 151)
UnicodeVersion(build) ==
    IF build.major = 2 THEN 52
    ELSE <<61, 63, 80, 90, 110, 121, 130, 130, 140, 150, 151>>[build.minor - 2]

\* An ASCII character is written as itself, a character outside ASCII by its
\* code point.  The blocks of the Unicode decimal digits, ZERO to NINE, each
\* with the version of Unicode that has the whole block (since) and whether
\* it lies below U+10000 (bmp).
UnicodeDigits ==
    << [ since |-> 11, bmp |-> TRUE, chars |->
           <<"U+0660","U+0661","U+0662","U+0663","U+0664",
             "U+0665","U+0666","U+0667","U+0668","U+0669">> ],
       [ since |-> 11, bmp |-> TRUE, chars |->
           <<"U+06F0","U+06F1","U+06F2","U+06F3","U+06F4",
             "U+06F5","U+06F6","U+06F7","U+06F8","U+06F9">> ],
       [ since |-> 50, bmp |-> TRUE, chars |->
           <<"U+07C0","U+07C1","U+07C2","U+07C3","U+07C4",
             "U+07C5","U+07C6","U+07C7","U+07C8","U+07C9">> ],
       [ since |-> 11, bmp |-> TRUE, chars |->
           <<"U+0966","U+0967","U+0968","U+0969","U+096A",
             "U+096B","U+096C","U+096D","U+096E","U+096F">> ],
       [ since |-> 11, bmp |-> TRUE, chars |->
           <<"U+09E6","U+09E7","U+09E8","U+09E9","U+09EA",
             "U+09EB","U+09EC","U+09ED","U+09EE","U+09EF">> ],
       [ since |-> 11, bmp |-> TRUE, chars |->
           <<"U+0A66","U+0A67","U+0A68","U+0A69","U+0A6A",
             "U+0A6B","U+0A6C","U+0A6D","U+0A6E","U+0A6F">> ],
       [ since |-> 11, bmp |-> TRUE, chars |->
           <<"U+0AE6","U+0AE7","U+0AE8","U+0AE9","U+0AEA",
             "U+0AEB","U+0AEC","U+0AED","U+0AEE","U+0AEF">> ],
       [ since |-> 11, bmp |-> TRUE, chars |->
           <<"U+0B66","U+0B67","U+0B68","U+0B69","U+0B6A",
             "U+0B6B","U+0B6C","U+0B6D","U+0B6E","U+0B6F">> ],
       [ since |-> 41, bmp |-> TRUE, chars |->
           <<"U+0BE6","U+0BE7","U+0BE8","U+0BE9","U+0BEA",
             "U+0BEB","U+0BEC","U+0BED","U+0BEE","U+0BEF">> ],
       [ since |-> 11, bmp |-> TRUE, chars |->
           <<"U+0C66","U+0C67","U+0C68","U+0C69","U+0C6A",
             "U+0C6B","U+0C6C","U+0C6D","U+0C6E","U+0C6F">> ],
       [ since |-> 11, bmp |-> TRUE, chars |->
           <<"U+0CE6","U+0CE7","U+0CE8","U+0CE9","U+0CEA",
             "U+0CEB","U+0CEC","U+0CED","U+0CEE","U+0CEF">> ],
       [ since |-> 11, bmp |-> TRUE, chars |->
           <<"U+0D66","U+0D67","U+0D68","U+0D69","U+0D6A",
             "U+0D6B","U+0D6C","U+0D6D","U+0D6E","U+0D6F">> ],
       [ since |-> 70, bmp |-> TRUE, chars |->
           <<"U+0DE6","U+0DE7","U+0DE8","U+0DE9","U+0DEA",
             "U+0DEB","U+0DEC","U+0DED","U+0DEE","U+0DEF">> ],
       [ since |-> 11, bmp |-> TRUE, chars |->
           <<"U+0E50","U+0E51","U+0E52","U+0E53","U+0E54",
             "U+0E55","U+0E56","U+0E57","U+0E58","U+0E59">> ],
       [ since |-> 11, bmp |-> TRUE, chars |->
           <<"U+0ED0","U+0ED1","U+0ED2","U+0ED3","U+0ED4",
             "U+0ED5","U+0ED6","U+0ED7","U+0ED8","U+0ED9">> ],
       [ since |-> 20, bmp |-> TRUE, chars |->
           <<"U+0F20","U+0F21","U+0F22","U+0F23","U+0F24",
             "U+0F25","U+0F26","U+0F27","U+0F28","U+0F29">> ],
       [ since |-> 30, bmp |-> TRUE, chars |->
           <<"U+1040","U+1041","U+1042","U+1043","U+1044",
             "U+1045","U+1046","U+1047","U+1048","U+1049">> ],
       [ since |-> 51, bmp |-> TRUE, chars |->
           <<"U+1090","U+1091","U+1092","U+1093","U+1094",
             "U+1095","U+1096","U+1097","U+1098","U+1099">> ],
       [ since |-> 30, bmp |-> TRUE, chars |->
           <<"U+17E0","U+17E1","U+17E2","U+17E3","U+17E4",
             "U+17E5","U+17E6","U+17E7","U+17E8","U+17E9">> ],
       [ since |-> 30, bmp |-> TRUE, chars |->
           <<"U+1810","U+1811","U+1812","U+1813","U+1814",
             "U+1815","U+1816","U+1817","U+1818","U+1819">> ],
       [ since |-> 40, bmp |-> TRUE, chars |->
           <<"U+1946","U+1947","U+1948","U+1949","U+194A",
             "U+194B","U+194C","U+194D","U+194E","U+194F">> ],
       [ since |-> 41, bmp |-> TRUE, chars |->
           <<"U+19D0","U+19D1","U+19D2","U+19D3","U+19D4",
             "U+19D5","U+19D6","U+19D7","U+19D8","U+19D9">> ],
       [ since |-> 52, bmp |-> TRUE, chars |->
           <<"U+1A80","U+1A81","U+1A82","U+1A83","U+1A84",
             "U+1A85","U+1A86","U+1A87","U+1A88","U+1A89">> ],
       [ since |-> 52, bmp |-> TRUE, chars |->
           <<"U+1A90","U+1A91","U+1A92","U+1A93","U+1A94",
             "U+1A95","U+1A96","U+1A97","U+1A98","U+1A99">> ],
       [ since |-> 50, bmp |-> TRUE, chars |->
           <<"U+1B50","U+1B51","U+1B52","U+1B53","U+1B54",
             "U+1B55","U+1B56","U+1B57","U+1B58","U+1B59">> ],
       [ since |-> 51, bmp |-> TRUE, chars |->
           <<"U+1BB0","U+1BB1","U+1BB2","U+1BB3","U+1BB4",
             "U+1BB5","U+1BB6","U+1BB7","U+1BB8","U+1BB9">> ],
       [ since |-> 51, bmp |-> TRUE, chars |->
           <<"U+1C40","U+1C41","U+1C42","U+1C43","U+1C44",
             "U+1C45","U+1C46","U+1C47","U+1C48","U+1C49">> ],
       [ since |-> 51, bmp |-> TRUE, chars |->
           <<"U+1C50","U+1C51","U+1C52","U+1C53","U+1C54",
             "U+1C55","U+1C56","U+1C57","U+1C58","U+1C59">> ],
       [ since |-> 51, bmp |-> TRUE, chars |->
           <<"U+A620","U+A621","U+A622","U+A623","U+A624",
             "U+A625","U+A626","U+A627","U+A628","U+A629">> ],
       [ since |-> 51, bmp |-> TRUE, chars |->
           <<"U+A8D0","U+A8D1","U+A8D2","U+A8D3","U+A8D4",
             "U+A8D5","U+A8D6","U+A8D7","U+A8D8","U+A8D9">> ],
       [ since |-> 51, bmp |-> TRUE, chars |->
           <<"U+A900","U+A901","U+A902","U+A903","U+A904",
             "U+A905","U+A906","U+A907","U+A908","U+A909">> ],
       [ since |-> 52, bmp |-> TRUE, chars |->
           <<"U+A9D0","U+A9D1","U+A9D2","U+A9D3","U+A9D4",
             "U+A9D5","U+A9D6","U+A9D7","U+A9D8","U+A9D9">> ],
       [ since |-> 70, bmp |-> TRUE, chars |->
           <<"U+A9F0","U+A9F1","U+A9F2","U+A9F3","U+A9F4",
             "U+A9F5","U+A9F6","U+A9F7","U+A9F8","U+A9F9">> ],
       [ since |-> 51, bmp |-> TRUE, chars |->
           <<"U+AA50","U+AA51","U+AA52","U+AA53","U+AA54",
             "U+AA55","U+AA56","U+AA57","U+AA58","U+AA59">> ],
       [ since |-> 52, bmp |-> TRUE, chars |->
           <<"U+ABF0","U+ABF1","U+ABF2","U+ABF3","U+ABF4",
             "U+ABF5","U+ABF6","U+ABF7","U+ABF8","U+ABF9">> ],
       [ since |-> 11, bmp |-> TRUE, chars |->
           <<"U+FF10","U+FF11","U+FF12","U+FF13","U+FF14",
             "U+FF15","U+FF16","U+FF17","U+FF18","U+FF19">> ],
       [ since |-> 40, bmp |-> FALSE, chars |->
           <<"U+104A0","U+104A1","U+104A2","U+104A3","U+104A4",
             "U+104A5","U+104A6","U+104A7","U+104A8","U+104A9">> ],
       [ since |-> 110, bmp |-> FALSE, chars |->
           <<"U+10D30","U+10D31","U+10D32","U+10D33","U+10D34",
             "U+10D35","U+10D36","U+10D37","U+10D38","U+10D39">> ],
       [ since |-> 60, bmp |-> FALSE, chars |->
           <<"U+11066","U+11067","U+11068","U+11069","U+1106A",
             "U+1106B","U+1106C","U+1106D","U+1106E","U+1106F">> ],
       [ since |-> 61, bmp |-> FALSE, chars |->
           <<"U+110F0","U+110F1","U+110F2","U+110F3","U+110F4",
             "U+110F5","U+110F6","U+110F7","U+110F8","U+110F9">> ],
       [ since |-> 61, bmp |-> FALSE, chars |->
           <<"U+11136","U+11137","U+11138","U+11139","U+1113A",
             "U+1113B","U+1113C","U+1113D","U+1113E","U+1113F">> ],
       [ since |-> 61, bmp |-> FALSE, chars |->
           <<"U+111D0","U+111D1","U+111D2","U+111D3","U+111D4",
             "U+111D5","U+111D6","U+111D7","U+111D8","U+111D9">> ],
       [ since |-> 70, bmp |-> FALSE, chars |->
           <<"U+112F0","U+112F1","U+112F2","U+112F3","U+112F4",
             "U+112F5","U+112F6","U+112F7","U+112F8","U+112F9">> ],
       [ since |-> 90, bmp |-> FALSE, chars |->
           <<"U+11450","U+11451","U+11452","U+11453","U+11454",
             "U+11455","U+11456","U+11457","U+11458","U+11459">> ],
       [ since |-> 70, bmp |-> FALSE, chars |->
           <<"U+114D0","U+114D1","U+114D2","U+114D3","U+114D4",
             "U+114D5","U+114D6","U+114D7","U+114D8","U+114D9">> ],
       [ since |-> 70, bmp |-> FALSE, chars |->
           <<"U+11650","U+11651","U+11652","U+11653","U+11654",
             "U+11655","U+11656","U+11657","U+11658","U+11659">> ],
       [ since |-> 61, bmp |-> FALSE, chars |->
           <<"U+116C0","U+116C1","U+116C2","U+116C3","U+116C4",
             "U+116C5","U+116C6","U+116C7","U+116C8","U+116C9">> ],
       [ since |-> 80, bmp |-> FALSE, chars |->
           <<"U+11730","U+11731","U+11732","U+11733","U+11734",
             "U+11735","U+11736","U+11737","U+11738","U+11739">> ],
       [ since |-> 70, bmp |-> FALSE, chars |->
           <<"U+118E0","U+118E1","U+118E2","U+118E3","U+118E4",
             "U+118E5","U+118E6","U+118E7","U+118E8","U+118E9">> ],
       [ since |-> 130, bmp |-> FALSE, chars |->
           <<"U+11950","U+11951","U+11952","U+11953","U+11954",
             "U+11955","U+11956","U+11957","U+11958","U+11959">> ],
       [ since |-> 90, bmp |-> FALSE, chars |->
           <<"U+11C50","U+11C51","U+11C52","U+11C53","U+11C54",
             "U+11C55","U+11C56","U+11C57","U+11C58","U+11C59">> ],
       [ since |-> 100, bmp |-> FALSE, chars |->
           <<"U+11D50","U+11D51","U+11D52","U+11D53","U+11D54",
             "U+11D55","U+11D56","U+11D57","U+11D58","U+11D59">> ],
       [ since |-> 110, bmp |-> FALSE, chars |->
           <<"U+11DA0","U+11DA1","U+11DA2","U+11DA3","U+11DA4",
             "U+11DA5","U+11DA6","U+11DA7","U+11DA8","U+11DA9">> ],
       [ since |-> 150, bmp |-> FALSE, chars |->
           <<"U+11F50","U+11F51","U+11F52","U+11F53","U+11F54",
             "U+11F55","U+11F56","U+11F57","U+11F58","U+11F59">> ],
       [ since |-> 70, bmp |-> FALSE, chars |->
           <<"U+16A60","U+16A61","U+16A62","U+16A63","U+16A64",
             "U+16A65","U+16A66","U+16A67","U+16A68","U+16A69">> ],
       [ since |-> 140, bmp |-> FALSE, chars |->
           <<"U+16AC0","U+16AC1","U+16AC2","U+16AC3","U+16AC4",
             "U+16AC5","U+16AC6","U+16AC7","U+16AC8","U+16AC9">> ],
       [ since |-> 70, bmp |-> FALSE, chars |->
           <<"U+16B50","U+16B51","U+16B52","U+16B53","U+16B54",
             "U+16B55","U+16B56","U+16B57","U+16B58","U+16B59">> ],
       [ since |-> 31, bmp |-> FALSE, chars |->
           <<"U+1D7CE","U+1D7CF","U+1D7D0","U+1D7D1","U+1D7D2",
             "U+1D7D3","U+1D7D4","U+1D7D5","U+1D7D6","U+1D7D7">> ],
       [ since |-> 31, bmp |-> FALSE, chars |->
           <<"U+1D7D8","U+1D7D9","U+1D7DA","U+1D7DB","U+1D7DC",
             "U+1D7DD","U+1D7DE","U+1D7DF","U+1D7E0","U+1D7E1">> ],
       [ since |-> 31, bmp |-> FALSE, chars |->
           <<"U+1D7E2","U+1D7E3","U+1D7E4","U+1D7E5","U+1D7E6",
             "U+1D7E7","U+1D7E8","U+1D7E9","U+1D7EA","U+1D7EB">> ],
       [ since |-> 31, bmp |-> FALSE, chars |->
           <<"U+1D7EC","U+1D7ED","U+1D7EE","U+1D7EF","U+1D7F0",
             "U+1D7F1","U+1D7F2","U+1D7F3","U+1D7F4","U+1D7F5">> ],
       [ since |-> 31, bmp |-> FALSE, chars |->
           <<"U+1D7F6","U+1D7F7","U+1D7F8","U+1D7F9","U+1D7FA",
             "U+1D7FB","U+1D7FC","U+1D7FD","U+1D7FE","U+1D7FF">> ],
       [ since |-> 120, bmp |-> FALSE, chars |->
           <<"U+1E140","U+1E141","U+1E142","U+1E143","U+1E144",
             "U+1E145","U+1E146","U+1E147","U+1E148","U+1E149">> ],
       [ since |-> 120, bmp |-> FALSE, chars |->
           <<"U+1E2F0","U+1E2F1","U+1E2F2","U+1E2F3","U+1E2F4",
             "U+1E2F5","U+1E2F6","U+1E2F7","U+1E2F8","U+1E2F9">> ],
       [ since |-> 150, bmp |-> FALSE, chars |->
           <<"U+1E4F0","U+1E4F1","U+1E4F2","U+1E4F3","U+1E4F4",
             "U+1E4F5","U+1E4F6","U+1E4F7","U+1E4F8","U+1E4F9">> ],
       [ since |-> 90, bmp |-> FALSE, chars |->
           <<"U+1E950","U+1E951","U+1E952","U+1E953","U+1E954",
             "U+1E955","U+1E956","U+1E957","U+1E958","U+1E959">> ],
       [ since |-> 130, bmp |-> FALSE, chars |->
           <<"U+1FBF0","U+1FBF1","U+1FBF2","U+1FBF3","U+1FBF4",
             "U+1FBF5","U+1FBF6","U+1FBF7","U+1FBF8","U+1FBF9">> ] >>

\* a character that was a decimal digit, with its value, in the versions of
\* Unicode before the one that made it another kind of number: NEW TAI LUE
\* THAM DIGIT ONE
FormerDigits == << [ until |-> 60, char |-> "U+19DA", value |-> 1 ] >>

\* the whitespace of a byte string: space, tab, line feed, carriage return,
\* form feed and vertical tab
AsciiWhitespace == { " ", "\t", "\n", "\r", "\f", "" }

\* the whitespace of Unicode outside ASCII
UnicodeWhitespace ==
    { "U+0085", "U+00A0", "U+1680", "U+2000", "U+2001", "U+2002", "U+2003",
      "U+2004", "U+2005", "U+2006", "U+2007", "U+2008", "U+2009", "U+200A",
      "U+2028", "U+2029", "U+202F", "U+205F", "U+3000" }

\* the information separators U+001C to U+001F
Separators == { "", "", "", "" }

\* the characters int strips.  Python 3 turns the whitespace outside ASCII
\* into spaces and leaves ASCII as it is; Python 2 turns every whitespace of
\* a unicode string, the separators with it, into spaces; U+180E was
\* whitespace before Unicode 6.3.
Whitespace(build) ==
    AsciiWhitespace
    \cup (IF build.text = "unicode" THEN UnicodeWhitespace ELSE {})
    \cup (IF build.text = "unicode" /\ UnicodeVersion(build) < 63
          THEN { "U+180E" } ELSE {})
    \cup (IF build.text = "unicode" /\ build.major = 2 THEN Separators ELSE {})

IsAsciiDigit(c) == \E d \in 1..10 : DigitChars[d] = c
IsFormerDigit(c) == \E f \in 1..Len(FormerDigits) : FormerDigits[f].char = c
IsUnicodeDigit(c) ==
    \/ \E b \in 1..Len(UnicodeDigits), d \in 1..10 :
          UnicodeDigits[b].chars[d] = c
    \/ IsFormerDigit(c)

\* a character that some build reads as a decimal digit
IsDecimal(c) == IsAsciiDigit(c) \/ IsUnicodeDigit(c)

\* does the build have the block: its Unicode database is not older than
\* the block, and the build holds the characters of the block
Known(block, build) ==
    /\ block.since <= UnicodeVersion(build)
    /\ block.bmp \/ build.wide

\* does int take c as a digit: a byte string has only the ASCII digits, a
\* unicode string the decimal digits its build knows
IsDigit(c, build) ==
    \/ IsAsciiDigit(c)
    \/ /\ build.text = "unicode"
       /\ \/ \E b \in 1..Len(UnicodeDigits), d \in 1..10 :
                Known(UnicodeDigits[b], build)
                /\ UnicodeDigits[b].chars[d] = c
          \/ \E f \in 1..Len(FormerDigits) :
                /\ FormerDigits[f].char = c
                /\ UnicodeVersion(build) < FormerDigits[f].until

DigitVal(c) ==
    IF IsAsciiDigit(c) THEN (CHOOSE d \in 1..10 : DigitChars[d] = c) - 1
    ELSE IF IsFormerDigit(c)
    THEN FormerDigits[CHOOSE f \in 1..Len(FormerDigits) :
                          FormerDigits[f].char = c].value
    ELSE (CHOOSE d \in 1..10 :
              \E b \in 1..Len(UnicodeDigits) : UnicodeDigits[b].chars[d] = c) - 1

RECURSIVE DigitsVal(_, _)
DigitsVal(s, acc) ==
    IF s = << >> THEN acc ELSE DigitsVal(Tail(s), acc * 10 + DigitVal(Head(s)))

RECURSIVE lstrip(_, _)
lstrip(s, build) ==
    IF s # << >> /\ Head(s) \in Whitespace(build)
    THEN lstrip(Tail(s), build) ELSE s

RECURSIVE rstrip(_, _)
rstrip(s, build) ==
    IF s # << >> /\ s[Len(s)] \in Whitespace(build)
    THEN rstrip(SubSeq(s, 1, Len(s) - 1), build) ELSE s

\* the digits of the text of a number: what is left of it without the
\* whitespace around it, its sign, and, on Python 2, the whitespace after
\* the sign
IntBody(s, build) ==
    LET t == rstrip(lstrip(s, build), build)
        signed == t # << >> /\ Head(t) \in {"+", "-"}
    IN  IF ~signed THEN t
        ELSE IF build.major = 3 THEN Tail(t) ELSE lstrip(Tail(t), build)

\* is s the text of a number: whitespace, an optional sign, one or more
\* digits, whitespace; from Python 3.6 on, also one underscore between two
\* digits
IsNumeral(s, build) ==
    LET body == IntBody(s, build) IN
    /\ body # << >>
    /\ \A i \in 1..Len(body) :
          \/ IsDigit(body[i], build)
          \/ /\ build.major = 3 /\ build.minor >= 6
             /\ body[i] = "_"
             /\ 1 < i /\ i < Len(body)
             /\ IsDigit(body[i - 1], build) /\ IsDigit(body[i + 1], build)

\* the number of digits of the text of a number
Digits(s, build) ==
    LET body == IntBody(s, build) IN
    Cardinality({ i \in 1..Len(body) : IsDigit(body[i], build) })

\* does int(s) succeed: s is the text of a number of no more digits than
\* the limit in force.  When it does not, int raises ValueError (for a
\* unicode string of Python 2 with a character it cannot encode, its
\* subclass UnicodeEncodeError).
IsInt(s, build) ==
    /\ IsNumeral(s, build)
    /\ build.limit = 0 \/ Digits(s, build) <= build.limit

\* whether int(s) succeeds, over the processes the program runs in:
\* { IsInt(s, b) : b \in Builds }, with the text read once for each release
Converts(s) ==
    { c \in BOOLEAN :
        \E r \in Releases :
            LET numeral == IsNumeral(s, r)
                digits == Digits(s, r)
            IN  \E l \in DigitLimits(r) :
                    c = (numeral /\ (l = 0 \/ digits <= l)) }

\* int(s) for a string s that IsInt: the same number on every build that
\* takes s
int(s) ==
    LET digits == SelectSeq(s, IsDecimal)
    IN  IF \E i \in 1..Len(s) : s[i] = "-" THEN 0 - DigitsVal(digits, 0)
        ELSE DigitsVal(digits, 0)

\* the default DNS port of run: cleaned_params.get("port", 53), int(... or 53)
DefaultPort == 53

\* the timeout, in seconds, run gives the ProxyResolver
UpstreamTimeout == 5

\* ProxyResolver(address, port, timeout)
ProxyResolver(address, port, timeout) ==
    [ address |-> address, port |-> port, timeout |-> timeout ]

\* SplunkDNSLogger(index, source, sourcetype): the logger and its writer
SplunkDNSLogger(index, source, sourcetype) ==
    [ index |-> index, source |-> source, sourcetype |-> sourcetype ]

\* the configurations run is called with
PortParams == { << >>, <<5300>> }
UpstreamParams == { << >>, << <<"h", ":", "5", "4">> >>, << <<"h", ":", "x">> >> }

ParamKeys(p, u) ==
    (IF p = << >> THEN {} ELSE {"port"})
        \cup (IF u = << >> THEN {} ELSE {"upstream_dns"})

Params ==
    { [ k \in ParamKeys(p, u) |-> IF k = "port" THEN p[1] ELSE u[1] ]
      : p \in PortParams, u \in UpstreamParams }

(***************************************************************************)
(* What the environment can do to one query.                               *)
(***************************************************************************)
\* the client of a query: the (address, port) of the socket it comes from;
\* two hosts, and a port of its own for every query
ClientHosts == << "10.0.0.1", "10.0.0.2" >>
ClientOf(q) == << ClientHosts[(q % 2) + 1], 40000 + q >>

\* query payloads: a question for example.com A, and a buffer that is too
\* short to decode
QueryPayloads == { <<1, 0, 1, 1>>, <<1, 0>> }

\* a payload as it travels over TCP
Frame(payload) == pack_H(Len(payload)) \o payload

\* what a TCP client sends before the handler reads: a whole frame, or a
\* part of one followed by a close (eof), or a part of one and then nothing
TcpSends ==
    { [ stream |-> Frame(d), eof |-> FALSE ] : d \in QueryPayloads }
    \cup { [ stream |-> <<0, 4, 1>>, eof |-> TRUE ],
           [ stream |-> <<0, 4, 1>>, eof |-> FALSE ] }

\* reply payloads of the upstream: an answer with one A record, a truncated
\* answer, a name error, a truncated server failure, and a buffer that does
\* not decode
UpstreamReplies ==
    { <<129, 128, 1, 1, 1>>, <<131, 128, 1, 1>>, <<129, 131, 1, 1>>,
      <<131, 130, 1, 1>>, <<129>> }

\* the outcomes of one forward to the upstream
UpstreamOutcomes ==
    { [ ok |-> TRUE, response |-> r, error |-> "" ] : r \in UpstreamReplies }
    \cup { [ ok |-> FALSE, response |-> << >>, error |-> "timed out" ] }

(***************************************************************************)
(* State.                                                                  *)
(***************************************************************************)
VARIABLES
    upstream,     \* can the configured resolver be reached: "up" or "down"
    servers,      \* the DNSServer objects the process has constructed, in order
    udp_server,   \* DNSProxyInput.udp_server: None or a reference to a DNSServer
    tcp_server,   \* DNSProxyInput.tcp_server: None or a reference to a DNSServer
    last_run,     \* how the latest call of run ended
    handlers,     \* the request handler of each query
    events,       \* the events the writer has written, in order
    emitted_by,   \* for each written event, the query whose handler wrote it
    forwarded,    \* for each query, what was sent to the upstream, and where
    client_rx,    \* for each query, the bytes its client has got back
    calls,        \* history: the calls of run that were recorded, in order
    starters      \* each caller of run: where it is in run, and its arguments

vars == << upstream, servers, udp_server, tcp_server, last_run, handlers, events,
           emitted_by, forwarded, client_rx, calls, starters >>

QueryIds == 1..MaxQueries

\* the threads of the host that can be inside run at the same time
Callers == 1..MaxCallers

\* the thread of the host that calls run for each stanza in turn
Host == 1

\* a caller outside run; inside run, server is the DNSServer its statement
\* holds: the one just constructed, or the one read from the attribute
IdleStarter == [ pc |-> "idle", cleaned_params |-> << >>, server |-> None ]

IdleHandler ==
    [ pc |-> "idle", protocol |-> "", client_address |-> <<"", 0>>,
      stream |-> << >>, eof |-> FALSE, data |-> << >>, response |-> << >>,
      error |-> "", after_failure |-> FALSE, refused |-> "" ]

\* DNSProxyInput.__init__, and an empty sink
Init ==
    /\ upstream \in { "up", "down" }
    /\ udp_server = None
    /\ tcp_server = None
    /\ servers = << >>
    /\ last_run = "none"
    /\ handlers = [ q \in QueryIds |-> IdleHandler ]
    /\ events = << >>
    /\ emitted_by = << >>
    /\ forwarded = [ q \in QueryIds |-> None ]
    /\ client_rx = [ q \in QueryIds |-> << >> ]
    /\ calls = << >>
    /\ starters = [ c \in Callers |-> IdleStarter ]

(***************************************************************************)
(* DNSProxyInput.run.                                                      *)
(***************************************************************************)
\* run without its guard
AlreadyStarted_unguarded == FALSE

\* a guard that is set by any call of run, started or not
AlreadyStarted_after_any_call == last_run # "none"

\* "if self.udp_server is not None: return"
AlreadyStarted == udp_server # None

\* can a listening socket be bound: its port is held neither by another
\* process (busy) nor by a socket of this process
CanBind(tcp, port, address, busy, bound) ==
    /\ (IF tcp THEN "tcp" ELSE "udp") \notin busy
    /\ \A i \in 1..Len(bound) : ~(bound[i].tcp = tcp /\ bound[i].port = port)

\* DNSServer(resolver, port=, address=, tcp=, logger=, handler=)
DNSServer(resolver, port, address, tcp, logger, handler) ==
    [ resolver |-> resolver, port |-> port, address |-> address, tcp |-> tcp,
      logger |-> logger, handler |-> handler, thread |-> FALSE ]

\* DNSServer.start_thread: the serve loop of the listener runs
start_thread(server) == [ server EXCEPT !.thread = TRUE ]

\* a reference to the i-th DNSServer object, and the object a reference (or
\* None) stands for
Ref(i) == [ ref |-> i ]
Object(r) == IF r = None THEN None ELSE servers[r.ref]

\* the socket a DNSServer listens on
SocketOf(server) ==
    [ tcp |-> server.tcp, port |-> server.port, address |-> server.address ]

\* the listening sockets the process has bound, in order: the constructor of
\* each DNSServer binds one, and run closes none
sockets == [ i \in 1..Len(servers) |-> SocketOf(servers[i]) ]

\* the sets of transports on which another process can hold the port when
\* run binds: any, and none
AnyHeld == SUBSET {"udp", "tcp"}
NoneHeld == { {} }

\* the DNSServer run constructs for one transport from a configuration that
\* parses
ServerFor(cleaned_params, tcp) ==
    LET port == Get(cleaned_params, "port", DefaultPort)
        address == Get(cleaned_params, "address", "")
        upstream_dns == Get(cleaned_params, "upstream_dns", NoneStr)
        index == Get(cleaned_params, "index", "default")
        sourcetype == Get(cleaned_params, "sourcetype", "dns_proxy")
        source == Get(cleaned_params, "source", "dns_proxy")
        parts == partition(upstream_dns, ":")
        upstream_dns_port ==
            IF parts[3] # << >> THEN int(parts[3]) ELSE DefaultPort
    IN  DNSServer(ProxyResolver(parts[1], upstream_dns_port, UpstreamTimeout),
                  port, address, tcp,
                  SplunkDNSLogger(index, source, sourcetype),
                  "PassthroughDNSHandler")

\* the history of the call that is running gets its result, and the
\* transports it found held by another process
Note(result, found) ==
    calls' = IF calls # << >> /\ calls[Len(calls)].result = "running"
             THEN [ calls EXCEPT ![Len(calls)] =
                      [ @ EXCEPT !.result = result, !.busy = @ \cup found ] ]
             ELSE calls

\* caller c leaves run: it returns, or an exception leaves run
Leave(c, result, found) ==
    /\ starters' = [ starters EXCEPT ![c] = IdleStarter ]
    /\ last_run' = result
    /\ Note(result, found)

\* caller c goes on to the next statement of run, holding server
Goto(c, pc, server) ==
    /\ starters' = [ starters EXCEPT ![c] =
                       [ @ EXCEPT !.pc = pc, !.server = server ] ]
    /\ UNCHANGED << last_run, calls >>

\* caller c calls run(stanza, cleaned_params, input_config) with one of the
\* configurations of params, and run tests its guard; n is the number of
\* calls the history records (none when n = 0)
RunEnter(c, params, n) ==
    /\ starters[c].pc = "idle"
    /\ n = 0 \/ Len(calls) < n
    /\ \E cleaned_params \in params :
          LET call == [ cleaned_params |-> cleaned_params, busy |-> {},
                        before |-> << udp_server, tcp_server, servers >>,
                        result |-> IF AlreadyStarted THEN "returned"
                                                     ELSE "running" ]
          IN /\ calls' = IF n = 0 THEN calls ELSE Append(calls, call)
             /\ IF AlreadyStarted
                THEN /\ last_run' = "returned"
                     /\ UNCHANGED starters
                ELSE /\ starters' = [ starters EXCEPT ![c] =
                            [ pc |-> "prepare",
                              cleaned_params |-> cleaned_params,
                              server |-> None ] ]
                     /\ UNCHANGED last_run
    /\ UNCHANGED << servers, udp_server, tcp_server >>
    /\ UNCHANGED << handlers, events, emitted_by, forwarded, client_rx >>
    /\ UNCHANGED upstream

\* the arguments, the upstream target, the resolver and the logger; int
\* takes the text of the port or not as the process the program runs in does
RunPrepare(c) ==
    /\ starters[c].pc = "prepare"
    /\ LET upstream_dns ==
               Get(starters[c].cleaned_params, "upstream_dns", NoneStr)
       IN  IF upstream_dns = NoneStr
           THEN \* None has no partition
                Leave(c, "AttributeError", {})
           ELSE LET parts == partition(upstream_dns, ":") IN
                \E converts \in Converts(parts[3]) :
                    IF parts[3] # << >> /\ ~converts
                    THEN Leave(c, "ValueError", {})
                    ELSE Goto(c, "udp", None)
    /\ UNCHANGED << servers, udp_server, tcp_server >>
    /\ UNCHANGED << handlers, events, emitted_by, forwarded, client_rx >>
    /\ UNCHANGED upstream

\* "DNSServer(resolver, port=port, address=address, ...)": the constructor
\* binds the UDP socket, or raises when the port is held
UdpConstruct(c, held) ==
    /\ starters[c].pc = "udp"
    /\ LET udp == ServerFor(starters[c].cleaned_params, FALSE) IN
       \E busy \in held :
           IF ~CanBind(FALSE, udp.port, udp.address, busy, sockets)
           THEN /\ Leave(c, "BindError", busy \cap {"udp"})
                /\ UNCHANGED servers
           ELSE /\ servers' = Append(servers, udp)
                /\ Goto(c, "udp_assign", Ref(Len(servers) + 1))
    /\ UNCHANGED << udp_server, tcp_server >>
    /\ UNCHANGED << handlers, events, emitted_by, forwarded, client_rx >>
    /\ UNCHANGED upstream

\* "self.udp_server = ": the attribute gets the server just constructed
UdpAssign(c) ==
    /\ starters[c].pc = "udp_assign"
    /\ udp_server' = starters[c].server
    /\ Goto(c, "udp_read", None)
    /\ UNCHANGED << servers, tcp_server >>
    /\ UNCHANGED << handlers, events, emitted_by, forwarded, client_rx >>
    /\ UNCHANGED upstream

\* "self.udp_server" of "self.udp_server.start_thread()": the attribute is
\* read
UdpServerRead(c) ==
    /\ starters[c].pc = "udp_read"
    /\ Goto(c, "udp_start", udp_server)
    /\ UNCHANGED << servers, udp_server, tcp_server >>
    /\ UNCHANGED << handlers, events, emitted_by, forwarded, client_rx >>
    /\ UNCHANGED upstream

\* ".start_thread()" of "self.udp_server.start_thread()": the server that
\* was read is started
UdpStartThread(c) ==
    /\ starters[c].pc = "udp_start"
    /\ servers' = [ servers EXCEPT ![starters[c].server.ref] = start_thread(@) ]
    /\ Goto(c, "tcp", None)
    /\ UNCHANGED << udp_server, tcp_server >>
    /\ UNCHANGED << handlers, events, emitted_by, forwarded, client_rx >>
    /\ UNCHANGED upstream

\* "DNSServer(resolver, port=port, address=address, tcp=True, ...)": the
\* constructor binds the TCP socket, or raises when the port is held
TcpConstruct(c, held) ==
    /\ starters[c].pc = "tcp"
    /\ LET tcp == ServerFor(starters[c].cleaned_params, TRUE) IN
       \E busy \in held :
           IF ~CanBind(TRUE, tcp.port, tcp.address, busy, sockets)
           THEN /\ Leave(c, "BindError", busy \cap {"tcp"})
                /\ UNCHANGED servers
           ELSE /\ servers' = Append(servers, tcp)
                /\ Goto(c, "tcp_assign", Ref(Len(servers) + 1))
    /\ UNCHANGED << udp_server, tcp_server >>
    /\ UNCHANGED << handlers, events, emitted_by, forwarded, client_rx >>
    /\ UNCHANGED upstream

\* "self.tcp_server = ": the attribute gets the server just constructed
TcpAssign(c) ==
    /\ starters[c].pc = "tcp_assign"
    /\ tcp_server' = starters[c].server
    /\ Goto(c, "tcp_read", None)
    /\ UNCHANGED << servers, udp_server >>
    /\ UNCHANGED << handlers, events, emitted_by, forwarded, client_rx >>
    /\ UNCHANGED upstream

\* "self.tcp_server" of "self.tcp_server.start_thread()": the attribute is
\* read
TcpServerRead(c) ==
    /\ starters[c].pc = "tcp_read"
    /\ Goto(c, "tcp_start", tcp_server)
    /\ UNCHANGED << servers, udp_server, tcp_server >>
    /\ UNCHANGED << handlers, events, emitted_by, forwarded, client_rx >>
    /\ UNCHANGED upstream

\* ".start_thread()" of "self.tcp_server.start_thread()": the server that
\* was read is started, and run returns
TcpStartThread(c) ==
    /\ starters[c].pc = "tcp_start"
    /\ servers' = [ servers EXCEPT ![starters[c].server.ref] = start_thread(@) ]
    /\ Leave(c, "started", {})
    /\ UNCHANGED << udp_server, tcp_server >>
    /\ UNCHANGED << handlers, events, emitted_by, forwarded, client_rx >>
    /\ UNCHANGED upstream

(***************************************************************************)
(* The listeners and the handling of one query.  The steps of a handler    *)
(* are separate actions, so that the handlers of different queries         *)
(* interleave as the threads of the two servers do.                        *)
(***************************************************************************)
\* a listener is serving: it has been constructed and its thread started.
\* Nothing in dns_proxy.py stops a listener; what its serve loop does with an
\* exception of a handler, and whether it waits for the handlers in flight,
\* is in dnslib.  Here a started listener can take the next request at any
\* time, which leaves every interleaving of the handlers possible.
Serving(server) == server # None /\ server.thread

\* the handler object the log_* methods read
H(q) == [ client_address |-> handlers[q].client_address,
          protocol       |-> handlers[q].protocol ]

\* the handling of a query has ended
Ended(h) == h.pc \in { "done", "sink_error", "send_error" }

\* the handling of a query has ended in a failure: an exception left the
\* handler, or the handler logged an error and returned
Failed(h) == h.pc \in { "sink_error", "send_error" } \/ (h.pc = "done" /\ h.error # "")

\* the listener that took query q: the reference the orchestrator holds for
\* the protocol of the query, and the server
ListenerOf(q) == IF handlers[q].protocol = "tcp" THEN tcp_server ELSE udp_server
ServerOf(q) == Object(ListenerOf(q))

\* queries get their numbers in the order of arrival
NextQuery(q) ==
    /\ handlers[q].pc = "idle"
    /\ \A r \in QueryIds : r < q => handlers[r].pc # "idle"

\* self.writer.write_event(event), called by the handler of query q, when
\* the sink takes the event
write_event(q, event) ==
    /\ events' = Append(events, event)
    /\ emitted_by' = Append(emitted_by, q)

\* the steps of a handler that write an event
LogSteps == { "log_recv", "log_request", "log_reply", "log_send", "log_error" }

\* the UDP listener takes a datagram
UdpReceive(q) ==
    /\ Serving(Object(udp_server))
    /\ NextQuery(q)
    /\ \E d \in QueryPayloads :
          handlers' = [ handlers EXCEPT ![q] =
              [ @ EXCEPT !.pc = "log_recv", !.protocol = "udp",
                         !.client_address = ClientOf(q), !.data = d,
                         !.after_failure =
                             \E r \in QueryIds : Failed(handlers[r]) ] ]
    /\ UNCHANGED << servers, udp_server, tcp_server, last_run, calls,
                    starters, events, emitted_by, forwarded, client_rx >>
    /\ UNCHANGED upstream

\* the TCP listener accepts a connection
TcpAccept(q) ==
    /\ Serving(Object(tcp_server))
    /\ NextQuery(q)
    /\ \E s \in TcpSends :
          handlers' = [ handlers EXCEPT ![q] =
              [ @ EXCEPT !.pc = "read", !.protocol = "tcp",
                         !.client_address = ClientOf(q), !.stream = s.stream,
                         !.eof = s.eof,
                         !.after_failure =
                             \E r \in QueryIds : Failed(handlers[r]) ] ]
    /\ UNCHANGED << servers, udp_server, tcp_server, last_run, calls,
                    starters, events, emitted_by, forwarded, client_rx >>
    /\ UNCHANGED upstream

\* the stream holds a whole length-prefixed message
WholeFrame(s) == Len(s) >= 2 /\ Len(s) - 2 >= unpack_H(s)

\* the TCP handler reads the 2-byte length and then that many bytes; it
\* waits while the client has sent neither the whole message nor a close
TcpRead(q) ==
    /\ handlers[q].pc = "read"
    /\ LET s == handlers[q].stream IN
       IF WholeFrame(s)
       THEN handlers' = [ handlers EXCEPT ![q] =
                [ @ EXCEPT !.pc = "log_recv",
                           !.data = SubSeq(s, 3, 2 + unpack_H(s)) ] ]
       ELSE /\ handlers[q].eof
            /\ handlers' = [ handlers EXCEPT ![q] =
                [ @ EXCEPT !.pc = "log_error",
                           !.error = "Request Truncated" ] ]
    /\ UNCHANGED << servers, udp_server, tcp_server, last_run, calls,
                    starters, events, emitted_by, forwarded, client_rx >>
    /\ UNCHANGED upstream

\* logger.log_recv(handler, data), then the decoding of the query
LogRecv(q) ==
    /\ handlers[q].pc = "log_recv"
    /\ write_event(q, log_recv(H(q), handlers[q].data))
    /\ handlers' = [ handlers EXCEPT ![q] =
          IF Decodable(handlers[q].data)
          THEN [ @ EXCEPT !.pc = "log_request" ]
          ELSE [ @ EXCEPT !.pc = "log_error",
                          !.error = "DNSError: request does not decode" ] ]
    /\ UNCHANGED << servers, udp_server, tcp_server, last_run, calls,
                    starters, forwarded, client_rx >>
    /\ UNCHANGED upstream

\* logger.log_request(handler, request)
LogRequest(q) ==
    /\ handlers[q].pc = "log_request"
    /\ write_event(q, log_request(H(q), DNSRecord_parse(handlers[q].data)))
    /\ handlers' = [ handlers EXCEPT ![q] = [ @ EXCEPT !.pc = "forward" ] ]
    /\ UNCHANGED << servers, udp_server, tcp_server, last_run, calls,
                    starters, forwarded, client_rx >>
    /\ UNCHANGED upstream

\* the query goes to the upstream over the protocol it came in on; the
\* upstream answers (answer is the payload it returns), or the forward
\* fails, as it always does when the upstream cannot be reached; the reply
\* is decoded
Forward(q) ==
    /\ handlers[q].pc = "forward"
    /\ \E o \in { x \in UpstreamOutcomes : upstream = "up" \/ ~x.ok } :
          LET wire == IF handlers[q].protocol = "tcp"
                      THEN Frame(o.response) ELSE o.response
              response == IF handlers[q].protocol = "tcp"
                          THEN SubSeq(wire, 3, Len(wire)) ELSE wire
          IN /\ forwarded' = [ forwarded EXCEPT ![q] =
                   [ address  |-> ServerOf(q).resolver.address,
                     port     |-> ServerOf(q).resolver.port,
                     protocol |-> handlers[q].protocol,
                     wire     |-> IF handlers[q].protocol = "tcp"
                                  THEN Frame(handlers[q].data)
                                  ELSE handlers[q].data,
                     answer   |-> o.response ] ]
             /\ handlers' = [ handlers EXCEPT ![q] =
                   IF ~o.ok
                   THEN [ @ EXCEPT !.pc = "log_error", !.error = o.error ]
                   ELSE IF ~Decodable(response)
                   THEN [ @ EXCEPT !.pc = "log_error",
                                   !.error = "DNSError: reply does not decode" ]
                   ELSE [ @ EXCEPT !.pc = "log_reply", !.response = response ] ]
    /\ UNCHANGED << servers, udp_server, tcp_server, last_run, calls,
                    starters, events, emitted_by, client_rx >>
    /\ UNCHANGED upstream

\* logger.log_truncated(handler, reply) when the reply has the truncation
\* bit, logger.log_reply(handler, reply) otherwise
LogReply(q) ==
    /\ handlers[q].pc = "log_reply"
    /\ LET reply == DNSRecord_parse(handlers[q].response) IN
       write_event(q, IF reply.header.tc THEN log_truncated(H(q), reply)
                                         ELSE log_reply(H(q), reply))
    /\ handlers' = [ handlers EXCEPT ![q] = [ @ EXCEPT !.pc = "send" ] ]
    /\ UNCHANGED << servers, udp_server, tcp_server, last_run, calls,
                    starters, forwarded, client_rx >>
    /\ UNCHANGED upstream

\* the reply is written to the client: as it is over UDP, behind its
\* 2-byte length over TCP; the write can fail, and the exception leaves the
\* handler
Send(q) ==
    /\ handlers[q].pc = "send"
    /\ \/ /\ client_rx' = [ client_rx EXCEPT ![q] =
                IF handlers[q].protocol = "tcp"
                THEN Frame(handlers[q].response) ELSE handlers[q].response ]
          /\ handlers' = [ handlers EXCEPT ![q] = [ @ EXCEPT !.pc = "log_send" ] ]
       \/ /\ handlers' = [ handlers EXCEPT ![q] = [ @ EXCEPT !.pc = "send_error" ] ]
          /\ UNCHANGED client_rx
    /\ UNCHANGED << servers, udp_server, tcp_server, last_run, calls, starters,
                    events, emitted_by, forwarded >>
    /\ UNCHANGED upstream

\* logger.log_send(handler, data)
LogSend(q) ==
    /\ handlers[q].pc = "log_send"
    /\ write_event(q, log_send(H(q), handlers[q].response))
    /\ handlers' = [ handlers EXCEPT ![q] = [ @ EXCEPT !.pc = "done" ] ]
    /\ UNCHANGED << servers, udp_server, tcp_server, last_run, calls,
                    starters, forwarded, client_rx >>
    /\ UNCHANGED upstream

\* logger.log_error(handler, e)
LogError(q) ==
    /\ handlers[q].pc = "log_error"
    /\ write_event(q, log_error(H(q), handlers[q].error))
    /\ handlers' = [ handlers EXCEPT ![q] = [ @ EXCEPT !.pc = "done" ] ]
    /\ UNCHANGED << servers, udp_server, tcp_server, last_run, calls,
                    starters, forwarded, client_rx >>
    /\ UNCHANGED upstream

\* the event the next step of the handler of q hands to write_event
EventAt(q) ==
    LET h == handlers[q] IN
    CASE h.pc = "log_recv" -> log_recv(H(q), h.data)
      [] h.pc = "log_request" -> log_request(H(q), DNSRecord_parse(h.data))
      [] h.pc = "log_reply" ->
            LET reply == DNSRecord_parse(h.response) IN
            IF reply.header.tc THEN log_truncated(H(q), reply)
                               ELSE log_reply(H(q), reply)
      [] h.pc = "log_send" -> log_send(H(q), h.response)
      [] h.pc = "log_error" -> log_error(H(q), h.error)

\* the sink is unavailable: write_event raises out of the log_* method, which
\* has no handler for it, and out of the handler of the query, which ends
\* there; refused is the type of the event that was not written
SinkFail(q) ==
    /\ handlers[q].pc \in LogSteps
    /\ handlers' = [ handlers EXCEPT ![q] =
          [ @ EXCEPT !.pc = "sink_error", !.refused = EventAt(q).type ] ]
    /\ UNCHANGED << servers, udp_server, tcp_server, last_run, calls, starters,
                    events, emitted_by, forwarded, client_rx >>
    /\ UNCHANGED upstream

Next ==
    \/ RunEnter(Host, Params, 0)
    \/ RunPrepare(Host)
    \/ UdpConstruct(Host, AnyHeld)
    \/ UdpAssign(Host)
    \/ UdpServerRead(Host)
    \/ UdpStartThread(Host)
    \/ TcpConstruct(Host, AnyHeld)
    \/ TcpAssign(Host)
    \/ TcpServerRead(Host)
    \/ TcpStartThread(Host)
    \/ \E q \in QueryIds : UdpReceive(q)
    \/ \E q \in QueryIds : TcpAccept(q)
    \/ \E q \in QueryIds : TcpRead(q)
    \/ \E q \in QueryIds : LogRecv(q)
    \/ \E q \in QueryIds : LogRequest(q)
    \/ \E q \in QueryIds : Forward(q)
    \/ \E q \in QueryIds : LogReply(q)
    \/ \E q \in QueryIds : Send(q)
    \/ \E q \in QueryIds : LogSend(q)
    \/ \E q \in QueryIds : LogError(q)
    \/ \E q \in QueryIds : SinkFail(q)

Spec == Init /\ [][Next]_vars

(***************************************************************************)
(* The calls of run alone, each recorded with its configuration, the       *)
(* listeners it found, the ports it found held, and how it ended.          *)
(***************************************************************************)
NextStart ==
    \/ RunEnter(Host, Params, MaxStarts)
    \/ RunPrepare(Host)
    \/ UdpConstruct(Host, AnyHeld)
    \/ UdpAssign(Host)
    \/ UdpServerRead(Host)
    \/ UdpStartThread(Host)
    \/ TcpConstruct(Host, AnyHeld)
    \/ TcpAssign(Host)
    \/ TcpServerRead(Host)
    \/ TcpStartThread(Host)

SpecStart == Init /\ [][NextStart]_vars

(***************************************************************************)
(* run with callers that are inside it at the same time: nothing in run or *)
(* in DNSProxyInput keeps a second thread out.  No other process holds a   *)
(* port here.                                                              *)
(***************************************************************************)
NextRace ==
    \/ \E c \in Callers : RunEnter(c, Params, 0)
    \/ \E c \in Callers : RunPrepare(c)
    \/ \E c \in Callers : UdpConstruct(c, NoneHeld)
    \/ \E c \in Callers : UdpAssign(c)
    \/ \E c \in Callers : UdpServerRead(c)
    \/ \E c \in Callers : UdpStartThread(c)
    \/ \E c \in Callers : TcpConstruct(c, NoneHeld)
    \/ \E c \in Callers : TcpAssign(c)
    \/ \E c \in Callers : TcpServerRead(c)
    \/ \E c \in Callers : TcpStartThread(c)

SpecRace == Init /\ [][NextRace]_vars

(***************************************************************************)
(* One call of run with any short upstream_dns string, and the queries     *)
(* that are then forwarded.                                                *)
(***************************************************************************)
UpstreamAlphabet == { "h", ":", "5", " ", "_", "U+A9F5" }

\* the texts of the ports of up to MaxPortDigits digits
PortTexts ==
    UNION { [ 1..n -> { DigitChars[d] : d \in 1..10 } ] : n \in 1..MaxPortDigits }

\* every short string over UpstreamAlphabet, and the host h with every port
UpstreamStrings ==
    UNION { [ 1..n -> UpstreamAlphabet ] : n \in 0..MaxUpstreamLen }
    \cup { <<"h", ":">> \o port : port \in PortTexts }

ParseParams ==
    { [ k \in {"port", "upstream_dns"} |-> IF k = "port" THEN 5300 ELSE u ]
      : u \in UpstreamStrings }

NextParse ==
    \/ RunEnter(Host, ParseParams, 1)
    \/ RunPrepare(Host)
    \/ UdpConstruct(Host, NoneHeld)
    \/ UdpAssign(Host)
    \/ UdpServerRead(Host)
    \/ UdpStartThread(Host)
    \/ TcpConstruct(Host, NoneHeld)
    \/ TcpAssign(Host)
    \/ TcpServerRead(Host)
    \/ TcpStartThread(Host)
    \/ \E q \in QueryIds : UdpReceive(q)
    \/ \E q \in QueryIds : TcpAccept(q)
    \/ \E q \in QueryIds : TcpRead(q)
    \/ \E q \in QueryIds : LogRecv(q)
    \/ \E q \in QueryIds : LogRequest(q)
    \/ \E q \in QueryIds : Forward(q)

\* the upstream can be reached
InitParse == Init /\ upstream = "up"

SpecParse == InitParse /\ [][NextParse]_vars


(***************************************************************************)
(* Properties.                                                             *)
(***************************************************************************)
\* the types of the events written for query q, in the order of the sink
TypesOf(q) ==
    LET idx == SelectIdx(emitted_by, q, 1)
    IN  [ i \in 1..Len(idx) |-> events[idx[i]].type ]

\* the number of events of query q whose type is in types
Count(q, types) ==
    Cardinality({ i \in 1..Len(events) :
                    emitted_by[i] = q /\ events[i].type \in types })

\* the event sequence of an answered query
FullSequences ==
    { <<"received", "request", "reply", "sent">>,
      <<"received", "request", "truncated_reply", "sent">> }

\* the place of an event type in the lifecycle of a query
Rank(type) ==
    CASE type = "received" -> 1
      [] type = "request" -> 2
      [] type \in {"reply", "truncated_reply", "invalid_request"} -> 3
      [] type = "sent" -> 4

\* the types of the events the handler of q has emitted, in order: those the
\* sink holds and, last, the one the sink refused
Emitted(q) ==
    TypesOf(q) \o (IF handlers[q].refused = "" THEN << >>
                   ELSE << handlers[q].refused >>)

\* the upstream has answered query q with a reply that decodes
Answered(q) == handlers[q].response # << >>

\* the bytes a client gets for the reply payload of query q
ReplyOnWire(q) ==
    IF handlers[q].protocol = "tcp"
    THEN Frame(handlers[q].response) ELSE handlers[q].response

\* C1: once the handling of a UDP query that decoded and that the upstream
\* answered with a decodable reply has ended, the events of the query are
\* exactly received, request, one of reply and truncated_reply, and sent, in
\* that order.
C1_UdpEventSequence ==
    \A q \in QueryIds :
        (/\ Ended(handlers[q])
         /\ handlers[q].protocol = "udp"
         /\ Decodable(handlers[q].data)
         /\ Answered(q))
        => TypesOf(q) \in FullSequences

\* C2: once the handling of a query whose bytes do not decode has ended,
\* the events of the query are exactly received and then invalid_request,
\* and its client has got no byte.
C2_MalformedQuery ==
    \A q \in QueryIds :
        (/\ Ended(handlers[q])
         /\ handlers[q].data # << >>
         /\ ~Decodable(handlers[q].data))
        => /\ TypesOf(q) = <<"received", "invalid_request">>
           /\ client_rx[q] = << >>

\* C3: once the handling of a decodable query has ended while the upstream
\* cannot be reached, or after its forward timed out, the events its handler
\* has emitted are exactly received, request and invalid_request, in that
\* order, and its client has got no byte.
C3_UpstreamUnreachable ==
    \A q \in QueryIds :
        (/\ Ended(handlers[q])
         /\ Decodable(handlers[q].data)
         /\ upstream = "down" \/ handlers[q].error = "timed out")
        => /\ Emitted(q) = <<"received", "request", "invalid_request">>
           /\ client_rx[q] = << >>

\* the number of sockets the process has bound for one transport
Bound(tcp) == Cardinality({ i \in 1..Len(sockets) : sockets[i].tcp = tcp })

\* C4: once a start has succeeded, whatever further starts follow, between
\* calls of run the process holds exactly one UDP and one TCP listening socket, both on the
\* configured port, and no later start has raised an error.
C4_StartIdempotent ==
    (udp_server # None /\ tcp_server # None /\ starters[Host].pc = "idle")
    => /\ Bound(FALSE) = 1
       /\ Bound(TRUE) = 1
       /\ \A i \in 1..Len(sockets) : sockets[i].port = Object(udp_server).port
       /\ Object(tcp_server).port = Object(udp_server).port
       /\ last_run \in { "started", "returned" }

\* C4 witness: a further start has returned after a start that succeeded
C4_Witness ==
    udp_server # None /\ tcp_server # None /\ last_run = "returned"

\* C5: a query never has more than one received event, more than one
\* request event or more than one of reply, truncated_reply and
\* invalid_request; and once the handling of a query that decoded has ended,
\* it has exactly one of each.
C5_NoLossNoDuplication ==
    \A q \in QueryIds :
        /\ Count(q, {"received"}) <= 1
        /\ Count(q, {"request"}) <= 1
        /\ Count(q, {"reply", "truncated_reply", "invalid_request"}) <= 1
        /\ (/\ Ended(handlers[q])
            /\ Count(q, {"received"}) = 1
            /\ Decodable(handlers[q].data))
           => /\ Count(q, {"request"}) = 1
              /\ Count(q, {"reply", "truncated_reply", "invalid_request"}) = 1

\* C6: a sent event is in the sink only for a query whose reply has been
\* written to its client: the write comes first.
C6_SentOnlyAfterWrite ==
    \A i \in 1..Len(events) :
        events[i].type = "sent"
        => /\ client_rx[emitted_by[i]] # << >>
           /\ client_rx[emitted_by[i]] = ReplyOnWire(emitted_by[i])

\* C6 witness: a sent event is in the sink, and so is the invalid_request of
\* a query whose client got nothing
C6_Witness ==
    /\ \E i \in 1..Len(events) : events[i].type = "sent"
    /\ \E i \in 1..Len(events) :
          events[i].type = "invalid_request" /\ client_rx[emitted_by[i]] = << >>

\* the handler of q has logged the reply of the upstream
ReplyLogged(q) ==
    Answered(q) /\ handlers[q].pc \in { "send", "log_send", "send_error", "done" }

\* C7: for a reply with the truncation bit, the handler writes one
\* truncated_reply event and the query never has a reply event; for a reply
\* without it, the handler writes one reply event and the query never has a
\* truncated_reply event.
C7_TruncationBitChoosesEvent ==
    \A q \in QueryIds :
        Answered(q) =>
            LET tc == DNSRecord_parse(handlers[q].response).header.tc IN
            /\ Count(q, {"reply"}) <= (IF tc THEN 0 ELSE 1)
            /\ Count(q, {"truncated_reply"}) <= (IF tc THEN 1 ELSE 0)
            /\ ReplyLogged(q)
               => Count(q, {"reply", "truncated_reply"}) = 1

\* C7 witness: the sink holds the truncated_reply of one query and the reply
\* of another
C7_Witness ==
    \E q, r \in QueryIds :
        /\ ReplyLogged(q) /\ DNSRecord_parse(handlers[q].response).header.tc
        /\ ReplyLogged(r) /\ ~DNSRecord_parse(handlers[r].response).header.tc

\* C8: every event carries the client address, the client port and the
\* protocol of the query whose handler wrote it, and the events of one query
\* are in the sink in the order of its lifecycle.
C8_NoCrossContamination ==
    /\ \A i \in 1..Len(events) :
          /\ events[i].client_address = handlers[emitted_by[i]].client_address[1]
          /\ events[i].client_port = handlers[emitted_by[i]].client_address[2]
          /\ events[i].protocol = handlers[emitted_by[i]].protocol
    /\ \A q \in QueryIds :
          \A i, j \in 1..Len(TypesOf(q)) :
              i < j => Rank(TypesOf(q)[i]) < Rank(TypesOf(q)[j])

\* C8 witness: a UDP and a TCP query from different clients whose events
\* alternate in the sink
C8_Witness ==
    \E i, j, k, l \in 1..Len(events) :
        /\ i < j /\ j < k /\ k < l
        /\ emitted_by[i] = emitted_by[k]
        /\ emitted_by[j] = emitted_by[l]
        /\ emitted_by[i] # emitted_by[j]
        /\ events[i].protocol # events[j].protocol
        /\ events[i].client_address # events[j].client_address

\* C9: a query that the upstream has answered and for which the write of an
\* event has failed still gets its reply: its client has got the bytes once
\* the handling has ended.
C9_SinkFailureKeepsReply ==
    \A q \in QueryIds :
        (handlers[q].pc = "sink_error" /\ Answered(q))
        => client_rx[q] = ReplyOnWire(q)

\* C10: after a query has failed (its bytes or its reply did not decode, the
\* upstream failed, the sink failed), both listeners of a started proxy are
\* still serving, and a valid query that came after the failure and that the
\* upstream answered has, once its handling has ended, its reply and the
\* full sequence of its events (a reply that cannot be written to its
\* client apart).
C10_FailuresKeepServing ==
    /\ (/\ \E q \in QueryIds : Failed(handlers[q])
        /\ starters[Host].pc = "idle"
        /\ tcp_server # None)
       => Serving(Object(udp_server)) /\ Serving(Object(tcp_server))
    /\ \A q \in QueryIds :
          (/\ handlers[q].after_failure
           /\ Ended(handlers[q])
           /\ handlers[q].pc # "send_error"
           /\ Answered(q))
          => /\ Emitted(q) \in FullSequences
             /\ client_rx[q] = ReplyOnWire(q)

\* the payload of the bytes that travel for a query over its protocol
PayloadOf(protocol, wire) ==
    IF protocol = "tcp" THEN SubSeq(wire, 3, Len(wire)) ELSE wire

\* C11: once the handling of a TCP query that the upstream answered with M
\* bytes has ended, its client has got the 2-byte big-endian value M and
\* then exactly the M bytes; what the client of a UDP query gets is the M
\* bytes with nothing before them.
C11_TcpFramingRoundTrip ==
    \A q \in QueryIds :
        /\ (Ended(handlers[q]) /\ Answered(q) /\ handlers[q].protocol = "tcp")
           => LET M == Len(forwarded[q].answer) IN
              /\ Len(client_rx[q]) = 2 + M
              /\ unpack_H(SubSeq(client_rx[q], 1, 2)) = M
              /\ SubSeq(client_rx[q], 3, 2 + M) = forwarded[q].answer
        /\ (handlers[q].protocol = "udp" /\ client_rx[q] # << >>)
           => client_rx[q] = forwarded[q].answer

\* C12: what goes to the upstream for a query is the payload its client
\* sent, what the client gets is the payload the upstream returned, and the
\* received and sent events of the query record these payloads, in
\* hexadecimal and with their lengths.
C12_Passthrough ==
    /\ \A q \in QueryIds :
          /\ forwarded[q] # None
             => PayloadOf(handlers[q].protocol, forwarded[q].wire)
                   = (IF handlers[q].protocol = "tcp"
                      THEN SubSeq(handlers[q].stream, 3, Len(handlers[q].stream))
                      ELSE handlers[q].data)
          /\ client_rx[q] # << >>
             => PayloadOf(handlers[q].protocol, client_rx[q]) = forwarded[q].answer
    /\ \A i \in 1..Len(events) :
          LET q == emitted_by[i] IN
          /\ events[i].type = "received"
             => /\ events[i].data = hexlify(handlers[q].data)
                /\ events[i].length = Len(handlers[q].data)
                /\ forwarded[q] # None
                   => handlers[q].data
                         = PayloadOf(handlers[q].protocol, forwarded[q].wire)
          /\ events[i].type = "sent"
             => /\ events[i].data = hexlify(forwarded[q].answer)
                /\ events[i].length = Len(forwarded[q].answer)

\* C12 witness: a UDP and a TCP query have both been answered and their sent
\* events written
C12_Witness ==
    \E q, r \in QueryIds :
        /\ handlers[q].protocol = "udp" /\ handlers[q].pc = "done" /\ Answered(q)
        /\ handlers[r].protocol = "tcp" /\ handlers[r].pc = "done" /\ Answered(r)

\* C14: the two listeners start as a unit: at every moment between calls of
\* run, either the UDP listener and the TCP listener are both bound and
\* serving or neither is, and the started guard is set only when both are.
C14_ListenersStartAsUnit ==
    starters[Host].pc = "idle"
    => /\ Serving(Object(udp_server)) <=> Serving(Object(tcp_server))
       /\ Bound(FALSE) = Bound(TRUE)
       /\ udp_server # None => Serving(Object(tcp_server))

\* C16: every reply event and every truncated_reply event carries the query
\* name and the answer type, the list of record types exactly when the
\* response code of the reply is no-error, the response code exactly when it
\* is not, and the fields a reply event has for the same reply.
C16_ReplyFieldShape ==
    \A i \in 1..Len(events) :
        events[i].type \in { "reply", "truncated_reply" }
        => LET q == emitted_by[i]
               reply == DNSRecord_parse(handlers[q].response)
               fields == DOMAIN events[i]
           IN /\ { "query_name", "response_type" } \subseteq fields
              /\ ("response_records" \in fields) <=> (reply.header.rcode = NOERROR)
              /\ ("response_code" \in fields) <=> (reply.header.rcode # NOERROR)
              /\ fields = DOMAIN log_reply(H(q), reply)

\* C17: a query with a received event reaches the end of its handling with
\* an invalid_request event or a reply or truncated_reply event: once its
\* handler has ended, the sink holds one of these for it.
C17_ReceivedQueryGetsOutcome ==
    \A q \in QueryIds :
        (Ended(handlers[q]) /\ Count(q, {"received"}) >= 1)
        => Count(q, {"invalid_request", "reply", "truncated_reply"}) >= 1

\* the listeners a call of run made or kept
Listeners == << udp_server, tcp_server, servers >>

\* C15: a call of run made while the proxy is started returns at once and
\* changes nothing: until the next call, the two listeners, with their
\* upstream target, bind address, port and logger, and the bound sockets
\* are what the call found.
C15_StartedStartChangesNothing ==
    \A i \in 1..Len(calls) :
        calls[i].before[1] # None
        => /\ calls[i].result = "returned"
           /\ i = Len(calls) => Listeners = calls[i].before
           /\ i < Len(calls) => calls[i + 1].before = calls[i].before

\* C15 witness: run was called while the proxy was started, with a
\* configuration that differs from the one it was started with
C15_Witness ==
    \E i, j \in 1..Len(calls) :
        /\ i < j
        /\ calls[i].result = "started"
        /\ calls[j].result = "returned"
        /\ calls[j].cleaned_params # calls[i].cleaned_params
        /\ udp_server # None
        /\ Object(udp_server).port
              = Get(calls[i].cleaned_params, "port", DefaultPort)

\* a call of run that ended before it made a listener: upstream_dns is
\* missing, or the port in it is not a number
ConfigErrors == { "AttributeError", "ValueError" }

\* a configuration with an upstream_dns of the form host or host:port
ValidConfig(cleaned_params) ==
    /\ "upstream_dns" \in DOMAIN cleaned_params
    /\ LET s == cleaned_params["upstream_dns"] IN
       \A i \in 1..Len(s) :
           s[i] = ":" => /\ i < Len(s)
                         /\ \A k \in (i + 1)..Len(s) :
                                \E d \in 1..10 : DigitChars[d] = s[k]

\* C19: a call of run that ended in a configuration error leaves the
\* orchestrator with no listener and no bound socket; and the call after
\* such a call, when its configuration is valid, is not taken as already
\* started: it goes on to the listeners, fails only on a port that another
\* process holds, and otherwise ends started with both listeners serving.
C19_FailedStartLeavesUnstarted ==
    \A i \in 1..Len(calls) :
        /\ calls[i].result \in ConfigErrors
           => /\ i = Len(calls) => Listeners = << None, None, << >> >>
              /\ i < Len(calls) => calls[i + 1].before = << None, None, << >> >>
        /\ (/\ i > 1
            /\ calls[i - 1].result \in ConfigErrors
            /\ ValidConfig(calls[i].cleaned_params))
           => /\ calls[i].result \in { "running", "started", "BindError" }
              /\ calls[i].result = "BindError" => calls[i].busy # {}
              /\ (calls[i].result = "started" /\ i = Len(calls))
                 => /\ Serving(Object(udp_server)) /\ Serving(Object(tcp_server))
                    /\ Bound(FALSE) = 1 /\ Bound(TRUE) = 1

\* C19 witness: a call of run ended in each of the two configuration errors,
\* and the call after them started both listeners
C19_Witness ==
    /\ Len(calls) = 3
    /\ { calls[1].result, calls[2].result } = ConfigErrors
    /\ calls[3].result = "started"
    /\ Serving(Object(udp_server)) /\ Serving(Object(tcp_server))

\* the places of the colons of a string
Colons(s) == { i \in 1..Len(s) : s[i] = ":" }

\* a string of the form host, or host:port with port a decimal integer
\* written with the digits 0 to 9
HostPortForm(s) ==
    \/ s # << >> /\ Colons(s) = {}
    \/ \E k \in 2..(Len(s) - 1) :
          /\ Colons(s) = {k}
          /\ \A i \in (k + 1)..Len(s) : \E d \in 1..10 : DigitChars[d] = s[i]

RECURSIVE Decimal(_)
\* the number a string of the digits 0 to 9 writes
Decimal(s) ==
    IF s = << >> THEN 0
    ELSE 10 * Decimal(SubSeq(s, 1, Len(s) - 1))
         + (CHOOSE n \in 0..9 : DigitChars[n + 1] = s[Len(s)])

\* the host and the port a string of the form host or host:port names
HostOf(s) ==
    IF Colons(s) = {} THEN s
    ELSE SubSeq(s, 1, (CHOOSE k \in Colons(s) : TRUE) - 1)

PortOf(s) ==
    IF Colons(s) = {} THEN 53
    ELSE Decimal(SubSeq(s, (CHOOSE k \in Colons(s) : TRUE) + 1, Len(s)))

\* run was called once, with an upstream_dns of the form host or host:port
ParsedCall ==
    /\ Len(calls) = 1
    /\ HostPortForm(calls[1].cleaned_params["upstream_dns"])

\* the target of both listeners, and of every query that was forwarded, is
\* the host and the port the upstream_dns of the call names
TargetIs(s) ==
    /\ calls[1].result \in { "running", "started" }
    /\ udp_server # None
       => /\ Object(udp_server).resolver.address = HostOf(s)
          /\ Object(udp_server).resolver.port = PortOf(s)
    /\ tcp_server # None
       => Object(tcp_server).resolver = Object(udp_server).resolver
    /\ calls[1].result = "started" => udp_server # None /\ tcp_server # None
    /\ \A q \in QueryIds :
          forwarded[q] # None
          => /\ forwarded[q].address = HostOf(s)
             /\ forwarded[q].port = PortOf(s)

\* C13 as it is stated: for an upstream_dns of the form host or host:port
\* the target is (host, port), and the port of the target is 53 exactly when
\* the string gives no port.
C13_PortIs53ExactlyWhenAbsent ==
    ParsedCall
    => LET s == calls[1].cleaned_params["upstream_dns"] IN
       /\ TargetIs(s)
       /\ udp_server # None
          => ((Object(udp_server).resolver.port = 53) <=> (Colons(s) = {}))

\* C13, amended: for an upstream_dns of the form host or host:port, the port
\* of no more digits than int converts, the target is (host, port), with
\* the port the string gives when it gives one and 53 when it gives none; it
\* is the target of both listeners and of every query that is forwarded.
C13_UpstreamTargetParsing ==
    ParsedCall => TargetIs(calls[1].cleaned_params["upstream_dns"])

\* C13 witness: run was called with a host:port string whose port is
\* neither 53 nor written with the digits of 53, and a UDP query and a TCP
\* query have been forwarded to that target
C13_Witness ==
    /\ ParsedCall
    /\ calls[1].result = "started"
    /\ calls[1].cleaned_params["upstream_dns"] = <<"h", ":", "8", "0", "9">>
    /\ Object(udp_server).resolver.port = 809
    /\ \E q, r \in QueryIds :
          /\ forwarded[q] # None /\ forwarded[q].protocol = "udp"
          /\ forwarded[r] # None /\ forwarded[r].protocol = "tcp"

\* caller c has passed the check of run with a configuration that parses:
\* it constructs listeners
Constructs(c) ==
    starters[c].pc \in { "udp", "udp_assign", "udp_read", "udp_start",
                         "tcp", "tcp_assign", "tcp_read", "tcp_start" }

\* C20: of the callers that are inside run at the same time, at most one
\* passes the check and constructs listeners: at most one UDP listener and
\* one TCP listener are ever bound, and no bind is attempted on a port the
\* process holds already.
C20_CreateOnce ==
    /\ Cardinality({ c \in Callers : Constructs(c) }) <= 1
    /\ Bound(FALSE) <= 1
    /\ Bound(TRUE) <= 1
    /\ last_run # "BindError"
====
